---- MODULE Spec2Model ----
(***************************************************************************)
(* dotbasher (src/src/main.rs): merges the alias files of the `aliases`    *)
(* directory into a marker-delimited block at the end of `.bashrc`.        *)
(*                                                                         *)
(* Strings are sequences of one-character strings; byte offsets are the    *)
(* 0-based offsets of the Rust code (the texts of the model are ASCII, so  *)
(* one character is one byte).  A HashMap is a function whose DOMAIN is    *)
(* its key set.                                                            *)
(***************************************************************************)
EXTENDS Integers, Sequences, FiniteSets, TLC

(***************************************************************************)
(* Constants of the program (main.rs:42-46).                               *)
(***************************************************************************)
ALIAS_DIR == <<"aliases">>

BASHRC == <<".bashrc">>

BASE_BASHRC == <<"/etc/skel/.bashrc">>

MODULAR_ALIAS_START_MARKER ==
  <<"#", "-", "-", "-", " ", "B", "E", "G", "I", "N", " ", "M", "o", "d", "u",
    "l", "a", "r", " ", "A", "l", "i", "a", "s", "e", "s", " ", "[", "B", "l",
    "o", "c", "k", "'", "s", " ", "c", "o", "n", "t", "e", "n", "t", "s", " ",
    "w", "i", "l", "l", " ", "b", "e", " ", "r", "e", "p", "l", "a", "c", "e",
    "d", " ", "o", "n", " ", "b", "u", "i", "l", "d", "]", " ", "-", "-", "-">>

MODULAR_ALIAS_END_MARKER ==
  <<"#", "-", "-", "-", " ", "E", "N", "D", " ", "M", "o", "d", "u", "l", "a",
    "r", " ", "A", "l", "i", "a", "s", "e", "s", " ", "-", "-", "-">>

\* The literal "alias " of starts_with("alias ") (main.rs:150, 308).
ALIAS_PREFIX == <<"a", "l", "i", "a", "s", " ">>

\* The literal "#include:" of starts_with("#include:") (main.rs:152).
INCLUDE_PREFIX == <<"#", "i", "n", "c", "l", "u", "d", "e", ":">>

(***************************************************************************)
(* str primitives of the Rust standard library, as the code uses them.     *)
(***************************************************************************)
\* Option::None of str::find.
None == -1

\* s[from..] (0-based byte offset).
SliceFrom(s, from) == SubSeq(s, from + 1, Len(s))

\* s[..to] (0-based, exclusive).
SliceTo(s, to) == SubSeq(s, 1, to)

\* str::starts_with
starts_with(s, pat) ==
  /\ Len(s) >= Len(pat)
  /\ SubSeq(s, 1, Len(pat)) = pat

\* str::find: the byte offset of the first match of pat in s, or None.
find(s, pat) ==
  LET hits == {i \in 0..(Len(s) - Len(pat)) :
                 /\ s[i + 1] = pat[1]
                 /\ SubSeq(s, i + 1, i + Len(pat)) = pat}
  IN IF hits = {} THEN None
     ELSE CHOOSE i \in hits : \A j \in hits : i <= j

\* char::is_whitespace, on the characters of the model's texts.
WhiteSpace == {" ", "\n"}

RECURSIVE trim_start(_)
trim_start(s) ==
  IF s # <<>> /\ Head(s) \in WhiteSpace THEN trim_start(Tail(s)) ELSE s

RECURSIVE trim_end(_)
trim_end(s) ==
  IF s # <<>> /\ s[Len(s)] \in WhiteSpace
  THEN trim_end(SubSeq(s, 1, Len(s) - 1)) ELSE s

\* str::trim
trim(s) == trim_end(trim_start(s))

\* str::split_once('='): <<before, after>> of the first '=', or <<>> (None).
split_once(s) ==
  LET i == find(s, <<"=">>)
  IN IF i = None THEN <<>>
     ELSE <<SliceTo(s, i), SliceFrom(s, i + 1)>>

\* str::lines: the text cut at each "\n"; a final line needs no "\n".
RECURSIVE lines(_)
lines(s) ==
  IF s = <<>> THEN <<>>
  ELSE LET i == find(s, <<"\n">>)
       IN IF i = None THEN <<s>>
          ELSE <<SliceTo(s, i)>> \o lines(SliceFrom(s, i + 1))

\* The characters in ascending byte order, for String's Ord.
AsciiOrder ==
  <<"\n", " ", "#", "'", "-", "/", "0", "1", "2", "3", ":", "=",
    "A", "B", "D", "E", "G", "I", "M", "N", "[", "]",
    "a", "b", "c", "d", "e", "g", "h", "i", "k", "l", "n", "o", "p", "r",
    "s", "t", "u", "w", "x">>

Byte(c) == CHOOSE i \in 1..Len(AsciiOrder) : AsciiOrder[i] = c

\* String::cmp(a, b) = Less: lexicographic on bytes.
RECURSIVE StrLess(_, _)
StrLess(a, b) ==
  IF b = <<>> THEN FALSE
  ELSE IF a = <<>> THEN TRUE
  ELSE IF Head(a) # Head(b) THEN Byte(Head(a)) < Byte(Head(b))
  ELSE StrLess(Tail(a), Tail(b))

(***************************************************************************)
(* Section editor (main.rs:318-328, 366-382).                              *)
(***************************************************************************)
\* extract_section: the first start marker through the next end marker, or
\* <<>> for None (a found section is never empty: it holds the markers).
extract_section(content, start_marker, end_marker) ==
  LET start_index == find(content, start_marker)
  IN IF start_index = None THEN <<>>
     ELSE LET remainder == SliceFrom(content, start_index)
              offset == find(remainder, end_marker)
          IN IF offset = None THEN <<>>
             ELSE LET end_index == start_index + offset + Len(end_marker)
                  IN SubSeq(content, start_index + 1, end_index)

\* Mutant: the loop without its `else { break; }`: a start marker that no
\* end marker follows sends the loop round again on the same text.
remove_section_iter_without_break(result, start_marker, end_marker) ==
  LET start == find(result, start_marker)
  IN IF start = None THEN [kind |-> "break", text |-> result]
     ELSE LET end == find(SliceFrom(result, start), end_marker)
          IN IF end = None THEN [kind |-> "next", text |-> result]
             ELSE IF start = 0 THEN [kind |-> "panic", text |-> result]
             ELSE LET end_index == start + end + Len(end_marker)
                  IN [kind |-> "next",
                      text |-> SliceTo(result, start - 1)
                               \o SliceFrom(result, end_index)]

\* Mutant: the end marker is looked for in the whole text, not from the
\* start marker on.
remove_section_iter_end_anywhere(result, start_marker, end_marker) ==
  LET start == find(result, start_marker)
  IN IF start = None THEN [kind |-> "break", text |-> result]
     ELSE LET end == find(result, end_marker)
          IN IF end = None THEN [kind |-> "break", text |-> result]
             ELSE IF start = 0 THEN [kind |-> "panic", text |-> result]
             ELSE LET end_index == start + end + Len(end_marker)
                  IN [kind |-> "next",
                      text |-> SliceTo(result, start - 1)
                               \o SliceFrom(result, end_index)]

\* One iteration of the loop of remove_section (main.rs:370-379) on `result`:
\*   "break"  the loop stops, result is returned as it is;
\*   "next"   the block was cut out, the loop runs again on `text`;
\*   "panic"  start = 0, so `start-1` overflows: with overflow checks the
\*            subtraction panics; without them it wraps to usize::MAX and the
\*            slice result[..usize::MAX] panics (out of range).
remove_section_iter(result, start_marker, end_marker) ==
  LET start == find(result, start_marker)
  IN IF start = None THEN [kind |-> "break", text |-> result]
     ELSE LET end == find(SliceFrom(result, start), end_marker)
          IN IF end = None THEN [kind |-> "break", text |-> result]
             ELSE IF start = 0 THEN [kind |-> "panic", text |-> result]
             ELSE LET end_index == start + end + Len(end_marker)
                  IN [kind |-> "next",
                      text |-> SliceTo(result, start - 1)
                               \o SliceFrom(result, end_index)]

\* remove_section: the loop run to its end; kind is "break" (returned text)
\* or "panic".
RECURSIVE remove_section(_, _, _)
remove_section(content, start_marker, end_marker) ==
  LET it == remove_section_iter(content, start_marker, end_marker)
  IN IF it.kind = "next"
     THEN remove_section(it.text, start_marker, end_marker)
     ELSE it

(***************************************************************************)
(* Aliases (main.rs:17-36, 305-339).                                       *)
(***************************************************************************)
\* enum AliasSource
SourcePath(path) == <<"Path", path>>

SourceDefault == <<"Default">>

\* struct Alias
Alias(value, source) == [value |-> value, source |-> source]

\* HashMap::new()
EmptyMap == [k \in {} |-> Alias(<<>>, SourceDefault)]

\* HashMap::insert
Insert(map, key, alias) ==
  [k \in (DOMAIN map) \cup {key} |-> IF k = key THEN alias ELSE map[k]]

\* parse_alias_line: <<name, Alias>>, or <<>> for None.
parse_alias_line(line, alias_source) ==
  LET trimmed == trim(line)
  IN IF starts_with(trimmed, ALIAS_PREFIX)
     THEN LET without_prefix == SliceFrom(trimmed, 6)
              parts == split_once(without_prefix)
          IN IF parts = <<>> THEN <<>>
             ELSE <<trim(parts[1]), Alias(trim(parts[2]), alias_source)>>
     ELSE <<>>

\* The loop of parse_modular_aliases over the lines ls, from the map `map`.
RECURSIVE parse_lines(_, _, _)
parse_lines(ls, alias_source, map) ==
  IF ls = <<>> THEN map
  ELSE LET parsed == parse_alias_line(Head(ls), alias_source)
       IN parse_lines(Tail(ls), alias_source,
                      IF parsed = <<>> THEN map
                      ELSE Insert(map, parsed[1], parsed[2]))

\* parse_modular_aliases
parse_modular_aliases(section, alias_source) ==
  parse_lines(lines(section), alias_source, EmptyMap)

(***************************************************************************)
(* The prompt (cliclack select, main.rs:226-233): its outcome is the key   *)
(* of the chosen item, or an error (the user cancels), which .expect turns *)
(* into a panic.                                                           *)
(***************************************************************************)
Key(k) == [ok |-> TRUE, key |-> k]

Cancelled == [ok |-> FALSE, key |-> <<>>]

\* The four items of the select, a key that is none of them, and a cancel.
PromptOutcomes ==
  {Key(<<"y">>), Key(<<"n">>), Key(<<"i">>), Key(<<"a">>), Key(<<" ", "A">>),
   Key(<<"x">>), Cancelled}

\* char::to_lowercase on the letters of the model's texts.
LowerOf(c) ==
  CASE c = "A" -> "a" [] c = "B" -> "b" [] c = "D" -> "d" [] c = "E" -> "e"
    [] c = "G" -> "g" [] c = "I" -> "i" [] c = "M" -> "m" [] c = "N" -> "n"
    [] OTHER -> c

\* str::to_lowercase
to_lowercase(s) == [i \in 1..Len(s) |-> LowerOf(s[i])]

\* Mutant: conflict_resolver without its "n" arm, so that "No" falls to the
\* default arm.
conflict_resolver_without_no(alias_name, current_val, new_val, conflict_type, outcome) ==
  IF ~outcome.ok
  THEN [panic |-> TRUE, resolved |-> <<>>, ignore |-> FALSE, accept |-> FALSE]
  ELSE LET answer == to_lowercase(trim(outcome.key))
       IN CASE answer = <<"i">> ->
                 [panic |-> FALSE, resolved |-> <<>>,
                  ignore |-> TRUE, accept |-> FALSE]
            [] answer = <<"a">> ->
                 [panic |-> FALSE, resolved |-> <<new_val>>,
                  ignore |-> FALSE, accept |-> TRUE]
            [] OTHER ->
                 [panic |-> FALSE, resolved |-> <<new_val>>,
                  ignore |-> FALSE, accept |-> FALSE]

\* Mutant: the "n" arm sets IGNORE_FUTURE_CONFLICTS as the "i" arm does.
conflict_resolver_no_sets_ignore(alias_name, current_val, new_val, conflict_type, outcome) ==
  IF ~outcome.ok
  THEN [panic |-> TRUE, resolved |-> <<>>, ignore |-> FALSE, accept |-> FALSE]
  ELSE LET answer == to_lowercase(trim(outcome.key))
       IN CASE answer = <<"y">> ->
                 [panic |-> FALSE, resolved |-> <<new_val>>,
                  ignore |-> FALSE, accept |-> FALSE]
            [] answer \in {<<"n">>, <<"i">>} ->
                 [panic |-> FALSE, resolved |-> <<>>,
                  ignore |-> TRUE, accept |-> FALSE]
            [] answer = <<"a">> ->
                 [panic |-> FALSE, resolved |-> <<new_val>>,
                  ignore |-> FALSE, accept |-> TRUE]
            [] OTHER ->
                 [panic |-> FALSE, resolved |-> <<new_val>>,
                  ignore |-> FALSE, accept |-> FALSE]

\* Mutant: the default arm keeps the current value, as the "n" arm does.
conflict_resolver_default_keeps(alias_name, current_val, new_val, conflict_type, outcome) ==
  IF ~outcome.ok
  THEN [panic |-> TRUE, resolved |-> <<>>, ignore |-> FALSE, accept |-> FALSE]
  ELSE LET answer == to_lowercase(trim(outcome.key))
       IN CASE answer = <<"y">> ->
                 [panic |-> FALSE, resolved |-> <<new_val>>,
                  ignore |-> FALSE, accept |-> FALSE]
            [] answer = <<"i">> ->
                 [panic |-> FALSE, resolved |-> <<>>,
                  ignore |-> TRUE, accept |-> FALSE]
            [] answer = <<"a">> ->
                 [panic |-> FALSE, resolved |-> <<new_val>>,
                  ignore |-> FALSE, accept |-> TRUE]
            [] OTHER ->
                 [panic |-> FALSE, resolved |-> <<>>,
                  ignore |-> FALSE, accept |-> FALSE]

\* conflict_resolver (main.rs:208-264) on the prompt's outcome: `resolved`
\* is <<alias>> for Some(alias) and <<>> for None; `ignore` and `accept` say
\* that the call sets IGNORE_FUTURE_CONFLICTS resp. ACCEPT_ALL_NEW.
conflict_resolver(alias_name, current_val, new_val, conflict_type, outcome) ==
  IF ~outcome.ok
  THEN [panic |-> TRUE, resolved |-> <<>>, ignore |-> FALSE, accept |-> FALSE]
  ELSE LET answer == to_lowercase(trim(outcome.key))
       IN CASE answer = <<"y">> ->
                 [panic |-> FALSE, resolved |-> <<new_val>>,
                  ignore |-> FALSE, accept |-> FALSE]
            [] answer = <<"n">> ->
                 [panic |-> FALSE, resolved |-> <<>>,
                  ignore |-> FALSE, accept |-> FALSE]
            [] answer = <<"i">> ->
                 [panic |-> FALSE, resolved |-> <<>>,
                  ignore |-> TRUE, accept |-> FALSE]
            [] answer = <<"a">> ->
                 [panic |-> FALSE, resolved |-> <<new_val>>,
                  ignore |-> FALSE, accept |-> TRUE]
            [] OTHER ->
                 [panic |-> FALSE, resolved |-> <<new_val>>,
                  ignore |-> FALSE, accept |-> FALSE]

\* The result of a step that may prompt: the map, the two flags the prompt
\* can set, whether the prompt was shown, and whether the step panicked.
Step(map, ignore, accept, prompted, panic) ==
  [map |-> map, ignore |-> ignore, accept |-> accept,
   prompted |-> prompted, panic |-> panic]

\* Mutant: the policy without its auto-confirm case.
cache_conflict_policy_without_yolo(yolo, ignore, accept) ==
  IF accept THEN "overwrite"
  ELSE IF ignore THEN "keep"
  ELSE "prompt"

\* Mutant: the policy without its ignoreFutureConflicts case.
cache_conflict_policy_without_ignore(yolo, ignore, accept) ==
  IF yolo THEN "overwrite"
  ELSE IF accept THEN "overwrite"
  ELSE "prompt"

\* Mutant: the policy without its acceptAllNew case.
cache_conflict_policy_without_accept(yolo, ignore, accept) ==
  IF yolo THEN "overwrite"
  ELSE IF ignore THEN "keep"
  ELSE "prompt"

\* What cache_incoming_aliases does with a name that is cached with another
\* value (main.rs:272-287): auto-confirm first, then the two sticky flags,
\* then the prompt.
cache_conflict_policy(yolo, ignore, accept) ==
  IF yolo THEN "overwrite"
  ELSE IF accept THEN "overwrite"
  ELSE IF ignore THEN "keep"
  ELSE "prompt"

\* cache_incoming_aliases (main.rs:267-303), reading the three flags and,
\* if it prompts, the prompt's outcome.
cache_incoming_aliases(path, alias_map, alias_line, yolo, ignore, accept, outcome) ==
  LET parsed == parse_alias_line(alias_line, SourcePath(path))
      quiet(map) == Step(map, ignore, accept, FALSE, FALSE)
  IN IF parsed = <<>> THEN quiet(alias_map)
     ELSE LET alias_name == parsed[1]
              incoming_value == parsed[2]
          IN IF alias_name \in DOMAIN alias_map
             THEN LET pre_cached_value == alias_map[alias_name]
                      policy == cache_conflict_policy(yolo, ignore, accept)
                  IN IF pre_cached_value.value # incoming_value.value
                     THEN CASE policy = "overwrite" ->
                                 quiet(Insert(alias_map, alias_name, incoming_value))
                            [] policy = "keep" -> quiet(alias_map)
                            [] policy = "prompt" ->
                                 LET r == conflict_resolver(alias_name,
                                            pre_cached_value, incoming_value,
                                            "CacheIncoming", outcome)
                                 IN Step(IF r.resolved # <<>>
                                         THEN Insert(alias_map, alias_name,
                                                     r.resolved[1])
                                         ELSE alias_map,
                                         ignore \/ r.ignore, accept \/ r.accept,
                                         TRUE, r.panic)
                     ELSE quiet(alias_map)
             ELSE quiet(Insert(alias_map, alias_name, incoming_value))

\* Mutant: the merge prompts when auto-confirm is off, as collection does.
compile_conflict_policy_as_collection(yolo) ==
  IF yolo THEN "overwrite" ELSE "prompt"

\* What compile_new_aliases does with a name whose persisted and incoming
\* values differ (main.rs:351-357).
compile_conflict_policy(yolo) == IF yolo THEN "prompt" ELSE "overwrite"

\* The body of the loop of compile_new_aliases (main.rs:348-362) for the
\* entry alias_key of `new`.
compile_step(old, new, final_map, alias_key, yolo, ignore, accept, outcome) ==
  LET new_value == new[alias_key]
      quiet(map) == Step(map, ignore, accept, FALSE, FALSE)
  IN IF alias_key \in DOMAIN old
     THEN LET old_value == old[alias_key]
          IN IF old_value.value # new_value.value
             THEN IF compile_conflict_policy(yolo) = "prompt"
                  THEN LET r == conflict_resolver(alias_key, old_value,
                                                  new_value, "WriteNew", outcome)
                       IN Step(IF r.resolved # <<>>
                               THEN Insert(final_map, alias_key, r.resolved[1])
                               ELSE final_map,
                               ignore \/ r.ignore, accept \/ r.accept,
                               TRUE, r.panic)
                  ELSE quiet(Insert(final_map, alias_key, new_value))
             ELSE quiet(final_map)
     ELSE quiet(Insert(final_map, alias_key, new_value))

(***************************************************************************)
(* Rendering of the block (main.rs:121-131).                               *)
(***************************************************************************)
\* Mutant: the names in descending order (the comparison of sort_by turned
\* round).
RECURSIVE sorted_descending(_)
sorted_descending(S) ==
  IF S = {} THEN <<>>
  ELSE LET most == CHOOSE a \in S : \A b \in S \ {a} : StrLess(b, a)
       IN <<most>> \o sorted_descending(S \ {most})

\* The elements of the set S of strings, ascending (Vec::sort, sort_by cmp).
RECURSIVE sorted(_)
sorted(S) ==
  IF S = {} THEN <<>>
  ELSE LET least == CHOOSE a \in S : \A b \in S \ {a} : StrLess(a, b)
       IN <<least>> \o sorted(S \ {least})

\* The lines "alias NAME=VALUE\n" of the names of the sequence, in its order.
RECURSIVE alias_lines(_, _)
alias_lines(names, map) ==
  IF names = <<>> THEN <<>>
  ELSE ALIAS_PREFIX \o Head(names) \o <<"=">> \o map[Head(names)].value
       \o <<"\n">> \o alias_lines(Tail(names), map)

\* new_alias_block of main
new_alias_block(map) ==
  MODULAR_ALIAS_START_MARKER \o <<"\n">>
  \o alias_lines(sorted(DOMAIN map), map)
  \o MODULAR_ALIAS_END_MARKER \o <<"\n">>

(***************************************************************************)
(* State.                                                                  *)
(***************************************************************************)
VARIABLES
  \* the environment: command line and file system
  argv,                \* env::args()
  fs_bashrc,           \* content of .bashrc, or NoFile
  fs_skel,             \* content of /etc/skel/.bashrc, or NoFile
  dir_exists,          \* Path::new(ALIAS_DIR).exists()
  files,               \* the files of the aliases directory: path -> lines
  \* the process
  pc,                  \* position of main, or how the process ended
  auto_confirm, remove_aliases, bashrc_file_exists, base_content,
  YOLO_MODE, IGNORE_FUTURE_CONFLICTS, ACCEPT_ALL_NEW,
  existing_aliases, incoming_aliases, referenced_include_file_paths,
  entries,             \* the entries the loop of main.rs:105 has yet to visit
  stack,               \* the active calls of process_alias_file, innermost last
  final_map,           \* final_map of compile_new_aliases
  merge_todo,          \* the keys of `new` its loop has yet to visit
  \* observation of the run (not read by the program)
  run,                 \* number of the current invocation
  prompts,             \* the prompts shown in this invocation, in order
  defs,                \* the alias definitions handed to the cache, in order
  descents,            \* the paths process_alias_file recursed into from an include
  past,                \* one record for each earlier invocation
  \* remove_section run one loop iteration at a time
  content, result, rs_pc

envVars == <<argv, fs_skel, dir_exists, files>>

mainVars == <<auto_confirm, remove_aliases, bashrc_file_exists, base_content>>

flagVars == <<YOLO_MODE, IGNORE_FUTURE_CONFLICTS, ACCEPT_ALL_NEW>>

collectVars == <<incoming_aliases, referenced_include_file_paths, entries, stack>>

mergeVars == <<final_map, merge_todo>>

obsVars == <<run, prompts, defs, descents, past>>

rsVars == <<content, result, rs_pc>>

vars == <<envVars, fs_bashrc, pc, mainVars, flagVars, existing_aliases,
          collectVars, mergeVars, obsVars, rsVars>>

\* A file that does not exist.
NoFile == <<"<no file>">>

Last(seq) == seq[Len(seq)]

\* Path::file_name: the last component of the path.
file_name(path) ==
  LET slashes == {i \in 1..Len(path) : path[i] = "/"}
  IN IF slashes = {} THEN path
     ELSE SubSeq(path, (CHOOSE i \in slashes : \A j \in slashes : j <= i) + 1,
                 Len(path))

\* format!("{}/{}", ALIAS_DIR, name)
alias_path(name) == ALIAS_DIR \o <<"/">> \o name

\* Mutant: process_includes_file_references without the test for a path
\* that was included before.
process_includes_file_references_unguarded(path, referenced, existing_paths) ==
  IF path \in existing_paths THEN <<path>> ELSE <<>>

\* Mutant: only the path included last is taken as included before.
process_includes_file_references_last_only(path, referenced, existing_paths) ==
  IF path \in existing_paths
  THEN IF referenced # <<>> /\ referenced[Len(referenced)] = path
       THEN <<>>
       ELSE <<path>>
  ELSE <<>>

\* process_includes_file_references (main.rs:167-179): <<path>> for
\* Some(path), <<>> for None; the path is pushed exactly when Some.
process_includes_file_references(path, referenced, existing_paths) ==
  IF path \in existing_paths
  THEN IF \E i \in 1..Len(referenced) : referenced[i] = path
       THEN <<>>
       ELSE <<path>>
  ELSE <<>>

(***************************************************************************)
(* main (main.rs:48-140), one action for each step of it.                  *)
(***************************************************************************)
HasArg(args, names) == \E i \in 1..Len(args) : args[i] \in names

\* main.rs:50-63: the arguments and the content to start from.
Load ==
  /\ pc = "start"
  /\ auto_confirm' = HasArg(argv, {<<"--auto-confirm">>, <<"-y">>})
  /\ remove_aliases' = HasArg(argv, {<<"--remove-aliases">>})
  /\ bashrc_file_exists' = (fs_bashrc # NoFile)
  /\ IF fs_bashrc # NoFile
     THEN base_content' = fs_bashrc /\ pc' = "loaded"
     ELSE IF fs_skel # NoFile
     THEN base_content' = fs_skel /\ pc' = "loaded"
     ELSE base_content' = base_content /\ pc' = "panic"
  /\ UNCHANGED <<envVars, fs_bashrc, flagVars, existing_aliases, collectVars,
                 mergeVars, obsVars, rsVars>>

\* main.rs:65-71: the remove-only mode.
RemoveOnly ==
  /\ pc = "loaded"
  /\ bashrc_file_exists /\ remove_aliases
  /\ LET new_bashrc == remove_section(base_content, MODULAR_ALIAS_START_MARKER,
                                      MODULAR_ALIAS_END_MARKER)
     IN IF new_bashrc.kind = "panic"
        THEN pc' = "panic" /\ fs_bashrc' = fs_bashrc
        ELSE pc' = "done" /\ fs_bashrc' = new_bashrc.text
  /\ UNCHANGED <<envVars, mainVars, flagVars, existing_aliases, collectVars,
                 mergeVars, obsVars, rsVars>>

\* Mutant: main without the test of main.rs:78-81, so that a missing aliases
\* directory is read as an empty one.
CheckAliasDir_without_exit ==
  /\ pc = "loaded"
  /\ ~(bashrc_file_exists /\ remove_aliases)
  /\ YOLO_MODE' = auto_confirm
  /\ LET existing_section ==
           extract_section(base_content, MODULAR_ALIAS_START_MARKER,
                           MODULAR_ALIAS_END_MARKER)
     IN /\ pc' = "collect"
        /\ existing_aliases' =
             IF existing_section # <<>>
             THEN parse_modular_aliases(existing_section, SourceDefault)
             ELSE EmptyMap
        /\ incoming_aliases' = EmptyMap
        /\ referenced_include_file_paths' = <<>>
        /\ entries' = sorted(DOMAIN files)
        /\ stack' = <<>>
  /\ UNCHANGED <<envVars, fs_bashrc, mainVars, IGNORE_FUTURE_CONFLICTS,
                 ACCEPT_ALL_NEW, mergeVars, obsVars, rsVars>>

\* main.rs:73-101: the flag, the directory check, the persisted aliases and
\* the sorted directory listing.
CheckAliasDir ==
  /\ pc = "loaded"
  /\ ~(bashrc_file_exists /\ remove_aliases)
  /\ YOLO_MODE' = auto_confirm
  /\ IF ~dir_exists
     THEN /\ pc' = "exit1"
          /\ UNCHANGED <<existing_aliases, collectVars>>
     ELSE LET existing_section ==
                extract_section(base_content, MODULAR_ALIAS_START_MARKER,
                                MODULAR_ALIAS_END_MARKER)
          IN /\ pc' = "collect"
             /\ existing_aliases' =
                  IF existing_section # <<>>
                  THEN parse_modular_aliases(existing_section, SourceDefault)
                  ELSE EmptyMap
             /\ incoming_aliases' = EmptyMap
             /\ referenced_include_file_paths' = <<>>
             /\ entries' = sorted(DOMAIN files)
             /\ stack' = <<>>
  /\ UNCHANGED <<envVars, fs_bashrc, mainVars, IGNORE_FUTURE_CONFLICTS,
                 ACCEPT_ALL_NEW, mergeVars, obsVars, rsVars>>

\* main.rs:105-116: the next entry of the directory; process_alias_file is
\* entered unless the entry bears the name the program was called by.
NextEntry ==
  /\ pc = "collect"
  /\ stack = <<>> /\ entries # <<>>
  /\ entries' = Tail(entries)
  /\ stack' = IF file_name(Head(entries)) = argv[1]
              THEN <<>>
              ELSE <<[path |-> Head(entries), read |-> 0]>>
  /\ UNCHANGED <<envVars, fs_bashrc, pc, mainVars, flagVars, existing_aliases,
                 incoming_aliases, referenced_include_file_paths, mergeVars,
                 obsVars, rsVars>>

\* process_alias_file (main.rs:143-165): one turn of its loop over the lines
\* of the innermost file.  A path that exists but is no regular file (the
\* directory itself, from "#include:" with nothing after it) opens, and its
\* first read fails: the error is returned and .expect panics.
ProcessLine ==
  /\ pc = "collect"
  /\ stack # <<>>
  /\ LET path == Last(stack).path
         read == Last(stack).read
         advanced == [stack EXCEPT ![Len(stack)].read = read + 1]
     IN IF path \notin DOMAIN files
        THEN /\ pc' = "panic"
             /\ UNCHANGED <<flagVars, collectVars, prompts, defs, descents>>
        ELSE
        /\ read < Len(files[path])
        /\ LET line == files[path][read + 1]
               trimmed_line == trim(line)
           IN IF starts_with(trimmed_line, ALIAS_PREFIX)
              THEN \E outcome \in PromptOutcomes :
                     LET parsed == parse_alias_line(line, SourcePath(path))
                         r == cache_incoming_aliases(path, incoming_aliases, line,
                                YOLO_MODE, IGNORE_FUTURE_CONFLICTS,
                                ACCEPT_ALL_NEW, outcome)
                     IN \* an outcome is drawn only if the prompt is shown
                        /\ r.prompted \/ outcome = Cancelled
                        /\ incoming_aliases' = r.map
                        /\ IGNORE_FUTURE_CONFLICTS' = r.ignore
                        /\ ACCEPT_ALL_NEW' = r.accept
                        /\ prompts' =
                             IF r.prompted
                             THEN Append(prompts, [type |-> "CacheIncoming",
                                                   name |-> parsed[1],
                                                   outcome |-> outcome])
                             ELSE prompts
                        /\ defs' = IF parsed # <<>>
                                   THEN Append(defs, <<parsed[1], parsed[2].value>>)
                                   ELSE defs
                        /\ IF r.panic
                           THEN pc' = "panic" /\ stack' = stack
                           ELSE pc' = pc /\ stack' = advanced
                        /\ UNCHANGED <<YOLO_MODE, referenced_include_file_paths,
                                       entries, descents>>
              ELSE IF starts_with(trimmed_line, INCLUDE_PREFIX)
              THEN LET include_path == alias_path(trim(SliceFrom(trimmed_line, 9)))
                       some == process_includes_file_references(include_path,
                                 referenced_include_file_paths,
                                 (DOMAIN files) \cup {alias_path(<<>>)})
                   IN /\ IF some # <<>>
                         THEN /\ referenced_include_file_paths' =
                                   Append(referenced_include_file_paths, include_path)
                              /\ stack' = Append(advanced,
                                                 [path |-> some[1], read |-> 0])
                              /\ descents' = Append(descents, some[1])
                         ELSE /\ stack' = advanced
                              /\ UNCHANGED <<referenced_include_file_paths, descents>>
                      /\ UNCHANGED <<pc, flagVars, incoming_aliases, entries,
                                     prompts, defs>>
              ELSE /\ stack' = advanced
                   /\ UNCHANGED <<pc, flagVars, incoming_aliases,
                                  referenced_include_file_paths, entries,
                                  prompts, defs, descents>>
  /\ UNCHANGED <<envVars, fs_bashrc, mainVars, existing_aliases, mergeVars,
                 run, past, rsVars>>

\* process_alias_file: the lines are exhausted, Ok(()) is returned.
EndOfFile ==
  /\ pc = "collect"
  /\ stack # <<>>
  /\ Last(stack).path \in DOMAIN files
  /\ Last(stack).read = Len(files[Last(stack).path])
  /\ stack' = SubSeq(stack, 1, Len(stack) - 1)
  /\ UNCHANGED <<envVars, fs_bashrc, pc, mainVars, flagVars, existing_aliases,
                 incoming_aliases, referenced_include_file_paths, entries,
                 mergeVars, obsVars, rsVars>>

\* Mutant: compile_new_aliases starts from an empty map, not from a copy of
\* the persisted one.
StartMerge_from_empty ==
  /\ pc = "collect"
  /\ stack = <<>> /\ entries = <<>>
  /\ pc' = "merge"
  /\ final_map' = EmptyMap
  /\ merge_todo' = DOMAIN incoming_aliases
  /\ UNCHANGED <<envVars, fs_bashrc, mainVars, flagVars, existing_aliases,
                 collectVars, obsVars, rsVars>>

\* main.rs:119 and 346: compile_new_aliases is entered.
StartMerge ==
  /\ pc = "collect"
  /\ stack = <<>> /\ entries = <<>>
  /\ pc' = "merge"
  /\ final_map' = existing_aliases
  /\ merge_todo' = DOMAIN incoming_aliases
  /\ UNCHANGED <<envVars, fs_bashrc, mainVars, flagVars, existing_aliases,
                 collectVars, obsVars, rsVars>>

\* compile_new_aliases (main.rs:348-362): one turn of its loop.  A HashMap
\* is iterated in an order of its own, so the next key is any key left.
MergeStep ==
  /\ pc = "merge"
  /\ \E alias_key \in merge_todo, outcome \in PromptOutcomes :
       LET r == compile_step(existing_aliases, incoming_aliases, final_map,
                             alias_key, YOLO_MODE, IGNORE_FUTURE_CONFLICTS,
                             ACCEPT_ALL_NEW, outcome)
       IN /\ r.prompted \/ outcome = Cancelled
          /\ final_map' = r.map
          /\ IGNORE_FUTURE_CONFLICTS' = r.ignore
          /\ ACCEPT_ALL_NEW' = r.accept
          /\ prompts' = IF r.prompted
                        THEN Append(prompts, [type |-> "WriteNew",
                                              name |-> alias_key,
                                              outcome |-> outcome])
                        ELSE prompts
          /\ IF r.panic
             THEN pc' = "panic" /\ merge_todo' = merge_todo
             ELSE pc' = pc /\ merge_todo' = merge_todo \ {alias_key}
  /\ UNCHANGED <<envVars, fs_bashrc, mainVars, YOLO_MODE, existing_aliases,
                 collectVars, run, defs, descents, past, rsVars>>

\* main.rs:121-139: the block is rendered, the old one removed, and the file
\* written.
RenderAndWrite ==
  /\ pc = "merge"
  /\ merge_todo = {}
  /\ LET new_bashrc == remove_section(base_content, MODULAR_ALIAS_START_MARKER,
                                      MODULAR_ALIAS_END_MARKER)
         final_bashrc == new_bashrc.text \o new_alias_block(final_map)
     IN IF new_bashrc.kind = "panic"
        THEN pc' = "panic" /\ fs_bashrc' = fs_bashrc
        ELSE pc' = "done" /\ fs_bashrc' = final_bashrc
  /\ UNCHANGED <<envVars, mainVars, flagVars, existing_aliases, collectVars,
                 mergeVars, obsVars, rsVars>>

(***************************************************************************)
(* The program is called again, with the same command line, once a call   *)
(* has ended with exit status 0: a new process (the statics are false      *)
(* again) on the file system the earlier call left.                        *)
(***************************************************************************)
MaxRuns == 2

\* The key the prompt's outcome stands for, as conflict_resolver reads it.
AnswerOf(outcome) == IF outcome.ok THEN to_lowercase(trim(outcome.key)) ELSE <<>>

OnlyOverwrite(log) == \A i \in 1..Len(log) : AnswerOf(log[i].outcome) = <<"y">>

ProcessStart ==
  /\ pc = "start"
  /\ auto_confirm = FALSE /\ remove_aliases = FALSE
  /\ bashrc_file_exists = FALSE /\ base_content = <<>>
  /\ YOLO_MODE = FALSE
  /\ IGNORE_FUTURE_CONFLICTS = FALSE
  /\ ACCEPT_ALL_NEW = FALSE
  /\ existing_aliases = EmptyMap /\ incoming_aliases = EmptyMap
  /\ referenced_include_file_paths = <<>>
  /\ entries = <<>> /\ stack = <<>>
  /\ final_map = EmptyMap /\ merge_todo = {}
  /\ prompts = <<>> /\ defs = <<>> /\ descents = <<>>

Rerun ==
  /\ pc = "done"
  /\ run < MaxRuns
  /\ run' = run + 1
  /\ past' = Append(past, [remove |-> bashrc_file_exists /\ remove_aliases,
                           before |-> IF bashrc_file_exists THEN base_content
                                      ELSE NoFile,
                           written |-> fs_bashrc,
                           overwrite |-> OnlyOverwrite(prompts)])
  /\ pc' = "start"
  /\ auto_confirm' = FALSE /\ remove_aliases' = FALSE
  /\ bashrc_file_exists' = FALSE /\ base_content' = <<>>
  /\ YOLO_MODE' = FALSE
  /\ IGNORE_FUTURE_CONFLICTS' = FALSE
  /\ ACCEPT_ALL_NEW' = FALSE
  /\ existing_aliases' = EmptyMap /\ incoming_aliases' = EmptyMap
  /\ referenced_include_file_paths' = <<>>
  /\ entries' = <<>> /\ stack' = <<>>
  /\ final_map' = EmptyMap /\ merge_todo' = {}
  /\ prompts' = <<>> /\ defs' = <<>> /\ descents' = <<>>
  /\ UNCHANGED <<envVars, fs_bashrc, rsVars>>

\* The steps of a call that merges.
MergeCall ==
  \/ Load
  \/ CheckAliasDir
  \/ NextEntry
  \/ ProcessLine
  \/ EndOfFile
  \/ StartMerge
  \/ MergeStep
  \/ RenderAndWrite

Next ==
  \/ MergeCall
  \/ RemoveOnly
  \/ Rerun

(***************************************************************************)
(* Inputs.                                                                 *)
(***************************************************************************)
\* All sequences over S of length k, and of length at most n.
SeqsOfLen(S, k) == [1..k -> S]

SeqsUpTo(S, n) == UNION {SeqsOfLen(S, k) : k \in 0..n}

AliasLine(name, value) == ALIAS_PREFIX \o name \o <<"=">> \o value

IncludeLine(name) == INCLUDE_PREFIX \o name

File1 == alias_path(<<"1">>)

File2 == alias_path(<<"2">>)

\* The directories with the files 1 and 2, of lines of L, n lines in all.
Dirs(L, n) ==
  UNION {{[p \in {File1, File2} |-> IF p = File1 THEN a ELSE b] :
            a \in SeqsOfLen(L, k), b \in SeqsUpTo(L, n - k)} : k \in 0..n}

\* The maps from names of N to values of V.
Maps(N, V) == UNION {[D -> {Alias(v, SourceDefault) : v \in V}] : D \in SUBSET N}

\* No aliases directory, so no files in it.
NoEntries == [p \in {} |-> <<>>]

\* The start of a call: the process at its start, the observation empty.
InitWith(Argvs, Bashrcs, Skels, DirStates, DirSet) ==
  /\ argv \in Argvs
  /\ fs_bashrc \in Bashrcs
  /\ fs_skel \in Skels
  /\ dir_exists \in DirStates
  /\ files \in IF dir_exists THEN DirSet ELSE {NoEntries}
  /\ ProcessStart
  /\ run = 1 /\ past = <<>>
  /\ content = <<>> /\ result = <<>> /\ rs_pc = "idle"

(***************************************************************************)
(* Spec: whole calls of the program, over many contents of .bashrc and a   *)
(* few alias files.                                                        *)
(***************************************************************************)
Program == <<"dotbasher">>

g == <<"g">>

h == <<"h">>

\* Most characters before and after the block in the .bashrc of Init.
MaxPad == 1

\* Most lines in the alias files of Init, all files together.
MaxLines == 1

PadChars == {"x", "\n"}

\* The texts before and after the block: MaxPad characters in all.
PadPairs ==
  UNION {{<<pre, post>> : pre \in SeqsOfLen(PadChars, k),
                          post \in SeqsUpTo(PadChars, MaxPad - k)} : k \in 0..MaxPad}

\* What stands between the pads: nothing, a block as the program writes it,
\* or a start marker line that no end marker follows.
Blocks ==
  {<<>>, MODULAR_ALIAS_START_MARKER \o <<"\n">>}
  \cup {new_alias_block(m) : m \in Maps({g, h}, {<<"1">>, <<"2">>})}

Bashrcs ==
  {NoFile} \cup {pad[1] \o mid \o pad[2] : pad \in PadPairs, mid \in Blocks}

Skels == {NoFile, <<"x", "\n">>}

\* The last command line is of a program that bears the name of file 2.
Argvs ==
  {<<Program>>, <<Program, <<"-y">>>>,
   <<Program, <<"--auto-confirm">>, <<"--remove-aliases">>>>, <<<<"2">>>>}

\* A definition, and a line that is neither a definition nor a directive.
Lines == {AliasLine(g, <<"1">>), <<"x">>}

Init ==
  /\ InitWith(Argvs, Bashrcs, Skels, BOOLEAN, Dirs(Lines, MaxLines))
  /\ fs_bashrc # NoFile => fs_skel = NoFile

Spec == Init /\ [][Next]_vars

(***************************************************************************)
(* SpecCollect: calls that merge, over many alias files (definitions that  *)
(* conflict, include directives) and a .bashrc that has no block.          *)
(***************************************************************************)
\* Most lines in the alias files of InitCollect, all files together.
MaxCollectLines == 3

CollectLines ==
  {AliasLine(g, <<"1">>), <<" ">> \o AliasLine(g, <<" ", "2", " ">>),
   AliasLine(h, <<"1">>), IncludeLine(<<"1">>), IncludeLine(<<" ", "2">>),
   IncludeLine(<<"3">>)}

MergeArgvs == {<<Program>>, <<Program, <<"-y">>>>}

InitCollect ==
  InitWith(MergeArgvs, {<<"x", "\n">>}, {NoFile}, {TRUE},
           Dirs(CollectLines, MaxCollectLines))

SpecCollect == InitCollect /\ [][MergeCall]_vars

(***************************************************************************)
(* SpecMerge: calls that merge, over every persisted block of up to two    *)
(* names and alias files that define the same names.                       *)
(***************************************************************************)
\* Most lines in the alias files of InitMerge, all files together.
MaxMergeLines == 2

\* Definitions, a line "alias h" with no "=", and an include directive with
\* no name, which resolves to the directory itself.
MergeLines ==
  {AliasLine(g, <<"1">>), AliasLine(g, <<"2">>), AliasLine(h, <<"1">>),
   ALIAS_PREFIX \o h, IncludeLine(<<>>)}

PersistedBashrcs ==
  {<<"x", "\n">> \o new_alias_block(m) : m \in Maps({g, h}, {<<"1">>, <<"2">>})}

InitMerge ==
  InitWith(MergeArgvs, PersistedBashrcs, {NoFile}, {TRUE},
           Dirs(MergeLines, MaxMergeLines))

SpecMerge == InitMerge /\ [][MergeCall]_vars

(***************************************************************************)
(* SpecRS: remove_section on its own, one loop iteration at a time, over   *)
(* every text of up to MaxText characters and a pair of two-character      *)
(* markers that begin alike, as the program's markers do.                  *)
(***************************************************************************)
MaxText == 6

TextChars == {"#", "B", "E", "\n", "x"}

ShortStart == <<"#", "B">>

ShortEnd == <<"#", "E">>

\* main.rs:370-373: a block is found and cut out; the loop goes on.
RemoveSectionCut ==
  /\ rs_pc = "loop"
  /\ LET it == remove_section_iter(result, ShortStart, ShortEnd)
     IN /\ it.kind = "next"
        /\ result' = it.text
  /\ UNCHANGED <<envVars, fs_bashrc, pc, mainVars, flagVars, existing_aliases,
                 collectVars, mergeVars, obsVars, content, rs_pc>>

\* main.rs:374-379, 381: no start marker, or no end marker after it: the
\* loop is left and result returned.
RemoveSectionReturn ==
  /\ rs_pc = "loop"
  /\ remove_section_iter(result, ShortStart, ShortEnd).kind = "break"
  /\ rs_pc' = "returned"
  /\ UNCHANGED <<envVars, fs_bashrc, pc, mainVars, flagVars, existing_aliases,
                 collectVars, mergeVars, obsVars, content, result>>

\* main.rs:373: the slice up to start-1 when start is 0.
RemoveSectionPanic ==
  /\ rs_pc = "loop"
  /\ remove_section_iter(result, ShortStart, ShortEnd).kind = "panic"
  /\ rs_pc' = "panic"
  /\ UNCHANGED <<envVars, fs_bashrc, pc, mainVars, flagVars, existing_aliases,
                 collectVars, mergeVars, obsVars, content, result>>

NextRS ==
  \/ RemoveSectionCut
  \/ RemoveSectionReturn
  \/ RemoveSectionPanic

\* main.rs:368: result starts as the content; no call of main is under way.
InitRS ==
  /\ content \in SeqsUpTo(TextChars, MaxText)
  /\ result = content
  /\ rs_pc = "loop"
  /\ argv = <<Program>>
  /\ fs_bashrc = NoFile /\ fs_skel = NoFile
  /\ dir_exists = FALSE /\ files = NoEntries
  /\ ProcessStart
  /\ run = 1 /\ past = <<>>

SpecRS == InitRS /\ [][NextRS]_vars

(***************************************************************************)
(* SpecRSBlocks: remove_section over longer texts, put together from up to *)
(* MaxPieces pieces: a character, a "#", the two markers, and the end      *)
(* marker with the tail of a start marker before it.                       *)
(***************************************************************************)
MaxPieces == 6

Pieces == {<<"x">>, <<"#">>, ShortStart, ShortEnd, <<"B">> \o ShortEnd}

RECURSIVE Concat(_)
Concat(ps) == IF ps = <<>> THEN <<>> ELSE Head(ps) \o Concat(Tail(ps))

InitRSBlocks ==
  /\ content \in {Concat(ps) : ps \in SeqsUpTo(Pieces, MaxPieces)}
  /\ result = content
  /\ rs_pc = "loop"
  /\ argv = <<Program>>
  /\ fs_bashrc = NoFile /\ fs_skel = NoFile
  /\ dir_exists = FALSE /\ files = NoEntries
  /\ ProcessStart
  /\ run = 1 /\ past = <<>>

SpecRSBlocks == InitRSBlocks /\ [][NextRS]_vars

(***************************************************************************)
(* Properties.                                                             *)
(***************************************************************************)
Ended == pc \in {"done", "exit1", "panic"}

\* The call under way is one that merges (it is past its branch at line 65).
Merging == pc # "start" /\ ~(bashrc_file_exists /\ remove_aliases)

NoDuplicates(seq) ==
  \A i \in 1..Len(seq) : \A j \in 1..Len(seq) : i # j => seq[i] # seq[j]

PromptsOf(type) == {i \in 1..Len(prompts) : prompts[i].type = type}

\* Processing order as the specification describes it: the lines of a file
\* from line `from` on, in order, an include directive replaced by the lines
\* of the file it names if that file exists and was not included before
\* (`visited`), and dropped otherwise.
RECURSIVE Reading(_, _, _)
Reading(path, from, visited) ==
  IF from > Len(files[path]) THEN [lines |-> <<>>, visited |-> visited]
  ELSE LET line == files[path][from]
           included == alias_path(trim(SliceFrom(trim(line), Len(INCLUDE_PREFIX))))
       IN IF starts_with(trim(line), INCLUDE_PREFIX)
          THEN IF included \in DOMAIN files /\ included \notin visited
               THEN LET inner == Reading(included, 1, visited \cup {included})
                        rest == Reading(path, from + 1, inner.visited)
                    IN [lines |-> inner.lines \o rest.lines,
                        visited |-> rest.visited]
               ELSE Reading(path, from + 1, visited)
          ELSE LET rest == Reading(path, from + 1, visited)
               IN [lines |-> <<line>> \o rest.lines, visited |-> rest.visited]

\* The files of the directory in path order, but the one named as the program.
RECURSIVE ReadingAll(_, _)
ReadingAll(paths, visited) ==
  IF paths = <<>> THEN <<>>
  ELSE IF file_name(Head(paths)) = argv[1] THEN ReadingAll(Tail(paths), visited)
  ELSE LET first == Reading(Head(paths), 1, visited)
       IN first.lines \o ReadingAll(Tail(paths), first.visited)

\* The definitions <<name, value>> among the lines, in order.
RECURSIVE DefsOf(_)
DefsOf(ls) ==
  IF ls = <<>> THEN <<>>
  ELSE LET parsed == parse_alias_line(Head(ls), SourceDefault)
       IN (IF parsed = <<>> THEN <<>> ELSE <<<<parsed[1], parsed[2].value>>>>)
          \o DefsOf(Tail(ls))

ProcessingOrder == DefsOf(ReadingAll(<<File1, File2>>, {}))

NamesOf(ds) == {ds[i][1] : i \in 1..Len(ds)}

\* The value of the last definition of the name in ds.
LastValue(ds, name) ==
  LET at == {i \in 1..Len(ds) : ds[i][1] = name}
  IN ds[CHOOSE i \in at : \A j \in at : j <= i][2]

\* The names that persisted and incoming set both hold, with other values.
Conflicts ==
  {n \in (DOMAIN existing_aliases) \cap (DOMAIN incoming_aliases) :
     existing_aliases[n].value # incoming_aliases[n].value}

\* The names the loop of compile_new_aliases has dealt with.
Merged == (DOMAIN incoming_aliases) \ merge_todo

\* C1: a second call in merge mode, after a first one in merge mode, with
\* the same alias files and every prompt of both answered "overwrite",
\* writes the .bashrc the first call wrote.
C1_RoundTrip ==
  (/\ run = 2 /\ pc = "done" /\ Merging
   /\ ~past[1].remove /\ past[1].overwrite /\ OnlyOverwrite(prompts))
  => fs_bashrc = past[1].written

\* C2: on a text that begins with the start marker and has an end marker
\* after it, remove_section does not fail.
C2_StartAtZero ==
  (/\ starts_with(content, ShortStart)
   /\ find(content, ShortEnd) # None)
  => rs_pc # "panic"

\* C3: what an iteration of remove_section deletes is a span from a start
\* marker through the end of the next end marker, and at most the newline
\* right before that start marker; no other character goes.
C3_DeletesOnlyBlockAndNewline ==
  [][result' # result =>
       \E i \in 0..Len(result) :
         /\ starts_with(SliceFrom(result, i), ShortStart)
         /\ find(SliceFrom(result, i), ShortEnd) # None
         /\ LET j == i + find(SliceFrom(result, i), ShortEnd) + Len(ShortEnd)
            IN \/ result' = SliceTo(result, i) \o SliceFrom(result, j)
               \/ /\ i > 0 /\ result[i] = "\n"
                  /\ result' = SliceTo(result, i - 1) \o SliceFrom(result, j)]_vars

\* C4: with auto-confirm on, collection shows no prompt, and once it is
\* over every name has the value of its last definition in processing order.
C4_AutoConfirmLastWins ==
  YOLO_MODE =>
    /\ PromptsOf("CacheIncoming") = {}
    /\ pc \in {"merge", "done"} =>
         /\ DOMAIN incoming_aliases = NamesOf(ProcessingOrder)
         /\ \A n \in NamesOf(ProcessingOrder) :
              incoming_aliases[n].value = LastValue(ProcessingOrder, n)

\* Two files define g, the first as 1 and the second as 2: g is 2.
C4_Witness ==
  /\ YOLO_MODE /\ pc = "merge"
  /\ files[File1] = <<AliasLine(g, <<"1">>)>>
  /\ files[File2] = <<<<" ">> \o AliasLine(g, <<" ", "2", " ">>)>>
  /\ incoming_aliases[g].value = <<"2">>

C6_MergePromptsOnConflict ==
  (YOLO_MODE /\ pc \in {"merge", "done"}) =>
    /\ {prompts[i].name : i \in PromptsOf("WriteNew")} = Conflicts \cap Merged
    /\ Cardinality(PromptsOf("WriteNew")) = Cardinality(Conflicts \cap Merged)
    /\ \A i \in PromptsOf("WriteNew") :
         /\ prompts[i].outcome = Key(<<"n">>) =>
              final_map[prompts[i].name].value
                = existing_aliases[prompts[i].name].value
         /\ prompts[i].outcome = Key(<<"y">>) =>
              final_map[prompts[i].name].value
                = incoming_aliases[prompts[i].name].value

\* Two names in conflict, one answered "No" and one "Yes".
C6_Witness ==
  /\ YOLO_MODE /\ pc = "done"
  /\ Conflicts = {g, h}
  /\ \E i, j \in PromptsOf("WriteNew") :
       /\ prompts[i].outcome = Key(<<"n">>)
       /\ prompts[j].outcome = Key(<<"y">>)

\* C7: when compile_new_aliases has run, the names of its result are the
\* names of the persisted and of the incoming set; a name of one set only
\* has the value it has there, and so has a name with the same value in both.
C7_MergeKeepsEveryName ==
  (pc \in {"merge", "done"} /\ merge_todo = {}) =>
    /\ DOMAIN final_map = (DOMAIN existing_aliases) \cup (DOMAIN incoming_aliases)
    /\ \A n \in (DOMAIN existing_aliases) \ (DOMAIN incoming_aliases) :
         final_map[n].value = existing_aliases[n].value
    /\ \A n \in (DOMAIN incoming_aliases) \ (DOMAIN existing_aliases) :
         final_map[n].value = incoming_aliases[n].value
    /\ \A n \in ((DOMAIN existing_aliases) \cap (DOMAIN incoming_aliases)) \ Conflicts :
         final_map[n].value = existing_aliases[n].value

\* The block has h alone, the files have g alone: the result has both.
C7_Witness ==
  /\ pc = "done"
  /\ DOMAIN existing_aliases = {h}
  /\ DOMAIN incoming_aliases = {g}
  /\ DOMAIN final_map = {g, h}

\* C8: with auto-confirm off, in a collection where a prompt has set
\* ignoreFutureConflicts or acceptAllNew, no step shows a prompt; with
\* ignoreFutureConflicts set no cached value changes, and with acceptAllNew
\* set a definition that is read becomes the cached value.
C8_StickyFlags ==
  [][(/\ pc = "collect" /\ ~YOLO_MODE
      /\ IGNORE_FUTURE_CONFLICTS \/ ACCEPT_ALL_NEW) =>
       /\ prompts' = prompts
       /\ IGNORE_FUTURE_CONFLICTS =>
            \A n \in DOMAIN incoming_aliases :
              incoming_aliases'[n] = incoming_aliases[n]
       /\ (ACCEPT_ALL_NEW /\ defs' # defs) =>
            incoming_aliases'[Last(defs')[1]].value = Last(defs')[2]]_vars

\* "Ignore all" was the answer to the one prompt, and a later definition of
\* the same name with another value was read and left the cache as it was.
C8_Witness ==
  /\ ~YOLO_MODE /\ pc = "collect"
  /\ IGNORE_FUTURE_CONFLICTS
  /\ Len(prompts) = 1
  /\ Len(defs) = 3
  /\ defs[3][1] = g
  /\ incoming_aliases[g].value # defs[3][2]

\* C9: the recursion from an include directive is entered once at most for
\* a path, and a directive that names no existing path is passed over: the
\* definitions read are those of the processing order, which goes on with
\* the lines after such a directive.
C9_IncludeOnce ==
  /\ NoDuplicates(descents)
  /\ pc \in {"merge", "done"} =>
       /\ defs = ProcessingOrder
       /\ \A i \in 1..Len(descents) : descents[i] \in DOMAIN files

\* File 1 names a path that does not exist and then file 2, which names
\* itself: the line after the missing path is read, and file 2 entered once.
C9_Witness ==
  /\ pc = "merge"
  /\ files[File1] = <<IncludeLine(<<"3">>), IncludeLine(<<" ", "2">>)>>
  /\ files[File2] = <<IncludeLine(<<" ", "2">>)>>
  /\ descents = <<File2>>

\* C10: a call with --remove-aliases on a .bashrc that exists ends with
\* exit status 0, the file being remove_section of what it was, and reads
\* no alias file, merges nothing and shows no prompt.
C10_RemoveOnly ==
  (Ended /\ bashrc_file_exists /\ remove_aliases) =>
    /\ pc = "done"
    /\ fs_bashrc = remove_section(base_content, MODULAR_ALIAS_START_MARKER,
                                  MODULAR_ALIAS_END_MARKER).text
    /\ prompts = <<>> /\ defs = <<>> /\ descents = <<>>
    /\ incoming_aliases = EmptyMap /\ final_map = EmptyMap

\* C11: a call that merges and finds no aliases directory ends with a
\* non-zero exit status, having read no alias file, shown no prompt and
\* written nothing: .bashrc is what it was, and absent if it was absent.
C11_MissingDirIsFatal ==
  (Merging /\ ~dir_exists) =>
    /\ pc \in {"loaded", "exit1", "panic"}
    /\ pc = "panic" => (fs_bashrc = NoFile /\ fs_skel = NoFile)
    /\ fs_bashrc = (IF bashrc_file_exists THEN base_content ELSE NoFile)
    /\ prompts = <<>> /\ defs = <<>> /\ descents = <<>>
    /\ incoming_aliases = EmptyMap /\ final_map = EmptyMap

\* No .bashrc and no aliases directory: exit status 1, and still no .bashrc.
C11_Witness ==
  /\ pc = "exit1" /\ ~dir_exists
  /\ fs_bashrc = NoFile /\ fs_skel # NoFile

\* The line "alias NAME=VALUE" of the name in the map.
RenderedLine(map, name) == ALIAS_PREFIX \o name \o <<"=">> \o map[name].value

\* The byte offset of the last match of pat in s, or None.
LastMatch(s, pat) ==
  LET hits == {i \in 0..(Len(s) - Len(pat)) :
                 /\ s[i + 1] = pat[1]
                 /\ SubSeq(s, i + 1, i + Len(pat)) = pat}
  IN IF hits = {} THEN None
     ELSE CHOOSE i \in hits : \A j \in hits : j <= i

\* C12: the file a merging call writes ends with the block, which is the
\* start marker line, one line "alias NAME=VALUE" for each name of the final
\* set, the names ascending and none twice, and the end marker line; nothing
\* comes after it.
C12_BlockRendered ==
  (pc = "done" /\ Merging) =>
    LET at == LastMatch(fs_bashrc, MODULAR_ALIAS_START_MARKER)
        block == SliceFrom(fs_bashrc, at)
        ls == lines(block)
        n == Cardinality(DOMAIN final_map)
        name_at(i) == CHOOSE k \in DOMAIN final_map :
                        ls[1 + i] = RenderedLine(final_map, k)
    IN /\ at # None
       /\ Len(ls) = n + 2
       /\ ls[1] = MODULAR_ALIAS_START_MARKER
       /\ ls[n + 2] = MODULAR_ALIAS_END_MARKER
       /\ Last(block) = "\n"
       /\ \A i \in 1..n : \E k \in DOMAIN final_map :
            ls[1 + i] = RenderedLine(final_map, k)
       /\ \A i \in 1..n : \A j \in 1..n :
            i < j => StrLess(name_at(i), name_at(j))
       /\ {name_at(i) : i \in 1..n} = DOMAIN final_map

\* The block had h, the files brought g: the block written has g before h.
C12_Witness ==
  /\ pc = "done" /\ Merging
  /\ DOMAIN existing_aliases = {h}
  /\ DOMAIN final_map = {g, h}
  /\ find(fs_bashrc, RenderedLine(final_map, g))
       < find(fs_bashrc, RenderedLine(final_map, h))

\* C13: remove_section comes to an end on every text: an iteration that
\* does not leave the loop makes the text strictly shorter, both as the step
\* taken and as the iteration computed in any state of the loop, so the
\* length of the text bounds the number of iterations.
C13_Terminates ==
  /\ [][(rs_pc = "loop" /\ rs_pc' = "loop") => Len(result') < Len(result)]_vars
  /\ [](rs_pc = "loop" =>
         LET it == remove_section_iter(result, ShortStart, ShortEnd)
         IN it.kind = "next" => Len(it.text) < Len(result))

\* Two blocks, each after a character: two iterations, then the return.
C13_Witness ==
  /\ rs_pc = "returned"
  /\ content = Concat(<<<<"x">>, ShortStart, ShortEnd,
                        <<"x">>, ShortStart, ShortEnd>>)
  /\ result = <<>>

\* The text has a start marker with an end marker somewhere after it.
HasBlock(text) ==
  \E i \in 0..Len(text) :
    /\ starts_with(SliceFrom(text, i), ShortStart)
    /\ find(SliceFrom(text, i), ShortEnd) # None

\* C14: on a text whose start markers all have a character before them,
\* remove_section returns a text, and that text has no start marker with an
\* end marker after it, also when a deletion joined a new block together.
C14_AllBlocksRemoved ==
  (~starts_with(content, ShortStart) /\ rs_pc # "loop") =>
    /\ rs_pc = "returned"
    /\ ~HasBlock(result)

\* C15: a text with no start marker, or with no end marker after its first
\* start marker, is returned as it is.
C15_UnterminatedUntouched ==
  LET start == find(content, ShortStart)
  IN (start = None \/ find(SliceFrom(content, start), ShortEnd) = None) =>
       /\ result = content
       /\ rs_pc \in {"loop", "returned"}

\* An end marker, then a start marker that nothing ends: returned whole.
C15_Witness ==
  /\ rs_pc = "returned"
  /\ content = ShortEnd \o <<"x">> \o ShortStart \o <<"\n">>
  /\ result = content

\* The step shows a prompt, and its response is the key k.
Answered(k) ==
  /\ Len(prompts') = Len(prompts) + 1
  /\ AnswerOf(Last(prompts').outcome) = k

AutoConfirmArg == HasArg(argv, {<<"--auto-confirm">>, <<"-y">>})

\* C16: IGNORE_FUTURE_CONFLICTS and ACCEPT_ALL_NEW, once true, stay true,
\* and become true only in a step whose prompt is answered "ignore all"
\* resp. "accept all"; YOLO_MODE has the value of the command-line flag
\* when collection begins and keeps it through collection and merge.
C16_FlagsMonotonic ==
  [][/\ IGNORE_FUTURE_CONFLICTS => IGNORE_FUTURE_CONFLICTS'
     /\ ACCEPT_ALL_NEW => ACCEPT_ALL_NEW'
     /\ (~IGNORE_FUTURE_CONFLICTS /\ IGNORE_FUTURE_CONFLICTS') => Answered(<<"i">>)
     /\ (~ACCEPT_ALL_NEW /\ ACCEPT_ALL_NEW') => Answered(<<"a">>)
     /\ pc \in {"collect", "merge"} => YOLO_MODE' = YOLO_MODE
     /\ pc' \in {"collect", "merge"} => YOLO_MODE' = AutoConfirmArg]_vars

\* With auto-confirm on, one merge prompt was answered "ignore all" and
\* another "accept all": both flags are set when the call ends.
C16_Witness ==
  /\ pc = "done" /\ YOLO_MODE
  /\ IGNORE_FUTURE_CONFLICTS /\ ACCEPT_ALL_NEW
  /\ Len(prompts) = 2

\* C17: a collection step that shows the prompt for a name cached with
\* another value leaves the name with the incoming value if the response is
\* overwrite, accept-all or a key that is none of the four, and with the
\* value it had if the response is keep or ignore-all; no other entry of
\* the map changes, and no name is added or lost.
C17_PromptResponse ==
  [][(/\ Len(prompts') = Len(prompts) + 1
      /\ Last(prompts').type = "CacheIncoming"
      /\ Last(prompts').outcome.ok) =>
       LET name == Last(prompts').name
           answer == AnswerOf(Last(prompts').outcome)
           incoming == Last(defs')[2]
       IN /\ Last(defs')[1] = name
          /\ name \in DOMAIN incoming_aliases
          /\ incoming_aliases[name].value # incoming
          /\ ~IGNORE_FUTURE_CONFLICTS /\ ~ACCEPT_ALL_NEW /\ ~YOLO_MODE
          /\ DOMAIN incoming_aliases' = DOMAIN incoming_aliases
          /\ \A n \in (DOMAIN incoming_aliases) \ {name} :
               incoming_aliases'[n] = incoming_aliases[n]
          /\ incoming_aliases'[name].value =
               IF answer \in {<<"n">>, <<"i">>}
               THEN incoming_aliases[name].value
               ELSE incoming]_vars

\* g was cached as 1 beside h, g = 2 came in, and the response was a key
\* that is none of the four: g is 2 and h is what it was.
C17_Witness ==
  /\ pc = "collect"
  /\ Len(prompts) = 1
  /\ prompts[1].outcome = Key(<<"x">>)
  /\ defs = <<<<h, <<"1">>>>, <<g, <<"1">>>>, <<g, <<"2">>>>>>
  /\ incoming_aliases[g].value = <<"2">>
  /\ incoming_aliases[h].value = <<"1">>

\* C18: with auto-confirm on, once a merge prompt was answered "ignore all"
\* or "accept all", the merge shows no further prompt, and a name whose
\* persisted and incoming values differ keeps the persisted value resp.
\* takes the incoming one.
C18_MergeSticky ==
  [][(/\ pc = "merge" /\ YOLO_MODE
      /\ IGNORE_FUTURE_CONFLICTS \/ ACCEPT_ALL_NEW) =>
       /\ prompts' = prompts
       /\ \A n \in Conflicts \cap (merge_todo \ merge_todo') :
            final_map'[n].value = IF ACCEPT_ALL_NEW
                                  THEN incoming_aliases[n].value
                                  ELSE existing_aliases[n].value]_vars

\* The paths that exist: the files of the directory and the directory.
ExistingPaths == (DOMAIN files) \cup {alias_path(<<>>)}

Visited == {referenced_include_file_paths[i] :
              i \in 1..Len(referenced_include_file_paths)}

\* The lines the active calls of process_alias_file have yet to read, and
\* one for the return of each call.
RECURSIVE Remaining(_)
Remaining(st) ==
  IF st = <<>> THEN 0
  ELSE 1 + (IF Head(st).path \in DOMAIN files
            THEN Len(files[Head(st).path]) - Head(st).read ELSE 0)
       + Remaining(Tail(st))

\* What is left of collection: the entries to visit, the existing paths not
\* yet included, and the lines of the active calls.
CollectMeasure ==
  <<Len(entries), Cardinality(ExistingPaths \ Visited), Remaining(stack)>>

\* a comes before b in the lexicographic order of triples of naturals.
LexLess(a, b) ==
  \/ a[1] < b[1]
  \/ a[1] = b[1] /\ a[2] < b[2]
  \/ a[1] = b[1] /\ a[2] = b[2] /\ a[3] < b[3]

\* C19: collection comes to an end for every include graph: each of its
\* steps makes what is left of it smaller, a descent from an include
\* directive goes to an existing path that was not included before and adds
\* it to the paths included, and the depth of the recursion is at most one
\* more than the number of paths included.
C19_CollectionTerminates ==
  /\ [](/\ NoDuplicates(referenced_include_file_paths)
        /\ Len(stack) <= 1 + Cardinality(Visited)
        /\ Visited \subseteq ExistingPaths)
  /\ [][/\ (pc = "collect" /\ pc' = "collect") =>
            LexLess(CollectMeasure', CollectMeasure)
        /\ (stack # <<>> /\ Len(stack') > Len(stack)) =>
            /\ Last(stack').path \in ExistingPaths \ Visited
            /\ referenced_include_file_paths'
                 = Append(referenced_include_file_paths, Last(stack').path)]_vars

\* File 1 names itself and file 2, file 2 names file 1: each is entered
\* once from a directive, and collection is over.
C19_Witness ==
  /\ pc = "merge"
  /\ files[File1] = <<IncludeLine(<<"1">>), IncludeLine(<<" ", "2">>)>>
  /\ files[File2] = <<IncludeLine(<<"1">>)>>
  /\ descents = <<File1, File2>>

\* The prompts of the call that were answered "ignore all" or "accept all".
StickyAnswers ==
  {i \in 1..Len(prompts) : AnswerOf(prompts[i].outcome) \in {<<"i">>, <<"a">>}}

\* C20: in a call without auto-confirm, IGNORE_FUTURE_CONFLICTS and
\* ACCEPT_ALL_NEW are never both true, at most one prompt of the call is
\* answered "ignore all" or "accept all", and no prompt is a merge prompt.
C20_OneStickyAnswer ==
  ~AutoConfirmArg =>
    /\ ~(IGNORE_FUTURE_CONFLICTS /\ ACCEPT_ALL_NEW)
    /\ Cardinality(StickyAnswers) <= 1
    /\ PromptsOf("WriteNew") = {}

\* "Accept all" was the answer to the one prompt; a third definition of the
\* name, in conflict again, was taken without a prompt, and the call ended.
C20_Witness ==
  /\ ~AutoConfirmArg /\ pc = "done"
  /\ ACCEPT_ALL_NEW /\ ~IGNORE_FUTURE_CONFLICTS
  /\ Len(prompts) = 1
  /\ defs = <<<<g, <<"1">>>>, <<g, <<"2">>>>, <<g, <<"1">>>>>>

====
